---- MODULE Spec2Model ----
(***************************************************************************)
(* Model of the intraday analysis core:                                    *)
(*   src/src/core/signal_filter.py     SignalFilter                        *)
(*   src/src/core/intraday_pipeline.py IntradayAnalysisPipeline            *)
(*   src/src/intraday_scheduler.py     IntradayScheduler                   *)
(* Floats are kept exact by scaling: volume ratio and RSI are in tenths    *)
(* (3.0 -> 30, 29.9 -> 299); times are whole seconds.                      *)
(***************************************************************************)
EXTENDS Integers, Sequences, FiniteSets, TLC

VARIABLES
    records,        \* SignalFilter._last_notifications: code -> <<time, signal, score>>
    allowed,        \* SignalFilter.allowed_signal_types
    now,            \* datetime.now(), seconds
    result,         \* the IntradayResult handed to should_notify
    prior,          \* the record should_notify found for result.code, <<>> if none
    ret,            \* the value should_notify returned
    rule,           \* the branch of should_notify that returned
    fpc,            \* caller of the filter: "idle" | "returned" | "cleared" | "done"
    stock_codes,    \* IntradayAnalysisPipeline.run: the watchlist, one unit per entry
    upc,            \* per unit: "queued" | "sleeping" | "history" | "analyze" | "done"
    quote,          \* per unit: what get_realtime_quote gave
    history,        \* per unit: what get_analysis_context gave
    verdict,        \* per unit: what trend_analyzer.analyze gave, if it was called
    future,         \* per unit: the outcome held by its future
    mpc,            \* run(): "idle" | "collect" | "returned" | "raised"
    yielded,        \* units as_completed has yielded, in order
    triggered_results,
    analyzed_count,
    failed_count,
    time_points,        \* IntradayScheduler.time_points, as slots of the day
    requested,          \* the holiday_detection argument of the constructor
    holiday_detection,  \* "simple" | "advanced"
    chinese_calendar,   \* _chinese_calendar is loaded
    calendar,           \* chinese_calendar.is_workday per day: "workday" | "holiday" | "raise"
    task_callback,      \* _task_callback is set
    running,            \* _running
    should_shutdown,    \* shutdown_handler.should_shutdown
    spc,                \* "idle" | "armed" | "loop" | "pending" | "task" | "stopped" | "crashed"
    next_run,           \* schedule: per job, <<day, slot>> of its next run
    runnable,           \* run_pending: the due jobs still to run, in order
    clock,              \* datetime.now() as <<day, slot>>
    weekday0,           \* weekday of day 0 (Monday = 0)
    task_outcome,       \* how the last task invocation ended: "" | "ok" | "raise"
    runs,               \* per job and day: task invocations started
    skips               \* per job and day: firings that returned at "not a trading day"

fvars == <<records, allowed, now, result, prior, ret, rule, fpc>>

pvars == <<stock_codes, upc, quote, history, verdict, future, mpc, yielded,
           triggered_results, analyzed_count, failed_count>>

svars == <<time_points, requested, holiday_detection, chinese_calendar, calendar,
           task_callback, running, should_shutdown, spc, next_run, runnable, clock,
           weekday0, task_outcome, runs, skips>>

vars == <<fvars, pvars, svars>>

----------------------------------------------------------------------------
(* Bounds of the model *)

\* the clock advances MaxTicks times, by half a dedup window each time
MaxTicks == 2

\* longest watchlist handed to run()
MaxWatch == 3

\* config.max_workers (default 3): the width of the pool in the model
MaxWorkers == 2

\* the scheduler's clock runs over days 0..MaxDays, each of SlotsPerDay poll slots
MaxDays == 2
SlotsPerDay == 3

\* a task invocation lasts 0..MaxTaskSlots slots
MaxTaskSlots == 2

----------------------------------------------------------------------------
(* Program constants *)

NotifyThreshold == 60
VolumeAlert == 30
MinNotifyInterval == 1800
ScoreChangeMin == 15
RsiOversold == 300
RsiOverbought == 700
MinHistory == 20

\* Optional[float] = None
NoValue == -1

DefaultSignalTypes == {"STRONG_BUY", "BUY", "STRONG_SELL"}

----------------------------------------------------------------------------
(* Value sets *)

BuySignal == {"STRONG_BUY", "BUY", "HOLD", "WAIT", "SELL", "STRONG_SELL"}

MACDCross == {"GOLDEN_CROSS_ZERO", "GOLDEN_CROSS", "DEATH_CROSS"}

Codes == {"600519", "000001"}

TickSeconds == MinNotifyInterval \div 2

Times == {k * TickSeconds : k \in 0..MaxTicks}

\* scores around the threshold and the 15-point change limit
Scores == {45, 59, 60, 75}

AllowLists == {DefaultSignalTypes, BuySignal}

AllResults ==
    [code : {"600519"},
     buy_signal : BuySignal,
     signal_score : Scores,
     volume_ratio : {NoValue, VolumeAlert, 45},
     macd_status : MACDCross \cup {"BULLISH", "None"},
     rsi_12 : {NoValue, 299, RsiOversold, RsiOverbought, 701},
     trend_status : {"BULL", "CONSOLIDATION"}]

\* the results of a session: on a rising trend every signal but WAIT (which the
\* filter treats as HOLD), with and without a volume alert; on a consolidation a
\* BUY or a HOLD at or above the threshold
SessionResults ==
    [code : Codes,
     buy_signal : BuySignal \ {"WAIT"},
     signal_score : {45, 60, 75},
     volume_ratio : {NoValue, 45},
     macd_status : {"None"},
     rsi_12 : {NoValue},
     trend_status : {"BULL"}]
    \cup
    [code : Codes,
     buy_signal : {"BUY", "HOLD"},
     signal_score : {60, 75},
     volume_ratio : {NoValue},
     macd_status : {"None"},
     rsi_12 : {NoValue},
     trend_status : {"CONSOLIDATION"}]

NoResult ==
    [code |-> "", buy_signal |-> "", signal_score |-> 0, volume_ratio |-> NoValue,
     macd_status |-> "None", rsi_12 |-> NoValue, trend_status |-> ""]

EmptyMap == [c \in {} |-> <<>>]

Abs(x) == IF x < 0 THEN -x ELSE x

----------------------------------------------------------------------------
(* SignalFilter *)

RecordNotification_KeepFirst(recs, code, signal, score, t) ==
    [c \in (DOMAIN recs) \cup {code} |->
        IF c \in DOMAIN recs THEN recs[c] ELSE <<t, signal, score>>]

RecordNotification_Replace(recs, code, signal, score, t) ==
    [c \in {code} |-> <<t, signal, score>>]

\* self._last_notifications[code] = (datetime.now(), signal, score)
RecordNotification(recs, code, signal, score, t) ==
    [c \in (DOMAIN recs) \cup {code} |->
        IF c = code THEN <<t, signal, score>> ELSE recs[c]]

IsSignalReversal(old_signal, new_signal) ==
    LET buy_signals == {"STRONG_BUY", "BUY"}
        sell_signals == {"STRONG_SELL", "SELL"}
        old_is_buy == old_signal \in buy_signals
        new_is_buy == new_signal \in buy_signals
        old_is_sell == old_signal \in sell_signals
        new_is_sell == new_signal \in sell_signals
    IN  (old_is_buy /\ new_is_sell) \/ (old_is_sell /\ new_is_buy)

VolumeTrigger_AboveThreshold(r) ==
    /\ r.volume_ratio # NoValue /\ r.volume_ratio # 0 /\ r.volume_ratio > VolumeAlert
    /\ r.signal_score >= NotifyThreshold

VolumeTrigger(r) ==
    r.volume_ratio # NoValue /\ r.volume_ratio # 0 /\ r.volume_ratio > VolumeAlert

MacdTrigger(r) == r.macd_status \in MACDCross

RsiOversoldTrigger_Inclusive(r) == r.rsi_12 # NoValue /\ r.rsi_12 <= RsiOversold

RsiOversoldTrigger(r) == r.rsi_12 # NoValue /\ r.rsi_12 < RsiOversold

RsiOverboughtTrigger(r) == r.rsi_12 # NoValue /\ r.rsi_12 > RsiOverbought

IsDuplicate_Inclusive(r, recs, t) ==
    /\ r.code \in DOMAIN recs
    /\ t - recs[r.code][1] <= MinNotifyInterval
    /\ r.buy_signal = recs[r.code][2]
    /\ Abs(r.signal_score - recs[r.code][3]) < ScoreChangeMin

IsDuplicate_AnySymbol(r, recs, t) ==
    \E c \in DOMAIN recs :
        /\ t - recs[c][1] < MinNotifyInterval
        /\ r.buy_signal = recs[c][2]
        /\ Abs(r.signal_score - recs[c][3]) < ScoreChangeMin

IsDuplicate_Elapsed(r, recs, t) ==
    /\ r.code \in DOMAIN recs
    /\ t - recs[r.code][1] > MinNotifyInterval
    /\ r.buy_signal = recs[r.code][2]
    /\ Abs(r.signal_score - recs[r.code][3]) < ScoreChangeMin

\* rule 5: a record of the same signal inside the window with a small score change
IsDuplicate(r, recs, t) ==
    /\ r.code \in DOMAIN recs
    /\ t - recs[r.code][1] < MinNotifyInterval
    /\ r.buy_signal = recs[r.code][2]
    /\ Abs(r.signal_score - recs[r.code][3]) < ScoreChangeMin

BelowThreshold(r) == r.signal_score < NotifyThreshold

NotAllowed_Never(r, allow) == FALSE

\* rule 7: signal.name not in self.allowed_signal_types
NotAllowed(r, allow) == r.buy_signal \notin allow

\* rule 8
NeutralSmallChange(r, recs) ==
    /\ r.buy_signal \in {"HOLD", "WAIT"}
    /\ r.code \in DOMAIN recs
    /\ Abs(r.signal_score - recs[r.code][3]) < ScoreChangeMin

Consolidation(r) == r.trend_status = "CONSOLIDATION"

\* rule 10
ReversalRule(r, recs) ==
    r.code \in DOMAIN recs /\ IsSignalReversal(recs[r.code][2], r.buy_signal)

Notify(r, recs, t, why) ==
    [notify |-> TRUE,
     recs |-> RecordNotification(recs, r.code, r.buy_signal, r.signal_score, t),
     rule |-> why]

Silent(recs, why) == [notify |-> FALSE, recs |-> recs, rule |-> why]

\* rules 1-4: the branches that notify before any record is read
ForcedRule(r) ==
    IF r.buy_signal = "STRONG_BUY" THEN "strong_buy"
    ELSE IF r.buy_signal = "STRONG_SELL" THEN "strong_sell"
    ELSE IF VolumeTrigger(r) THEN "volume"
    ELSE IF MacdTrigger(r) THEN "macd"
    ELSE IF RsiOversoldTrigger(r) THEN "rsi_oversold"
    ELSE IF RsiOverboughtTrigger(r) THEN "rsi_overbought"
    ELSE ""

Filtered_ReversalSilent(r, recs, t, allow) ==
    IF IsDuplicate(r, recs, t) THEN Silent(recs, "duplicate")
    ELSE IF BelowThreshold(r) THEN Silent(recs, "threshold")
    ELSE IF NotAllowed(r, allow) THEN Silent(recs, "allow_list")
    ELSE IF NeutralSmallChange(r, recs) THEN Silent(recs, "neutral")
    ELSE IF Consolidation(r) THEN Silent(recs, "consolidation")
    ELSE IF ReversalRule(r, recs) THEN Silent(recs, "reversal")
    ELSE Notify(r, recs, t, "default")

Filtered_ReversalFirst(r, recs, t, allow) ==
    IF IsDuplicate(r, recs, t) THEN Silent(recs, "duplicate")
    ELSE IF ReversalRule(r, recs) THEN Notify(r, recs, t, "reversal")
    ELSE IF BelowThreshold(r) THEN Silent(recs, "threshold")
    ELSE IF NotAllowed(r, allow) THEN Silent(recs, "allow_list")
    ELSE IF NeutralSmallChange(r, recs) THEN Silent(recs, "neutral")
    ELSE IF Consolidation(r) THEN Silent(recs, "consolidation")
    ELSE Notify(r, recs, t, "default")

\* rules 5-10 and the default
Filtered(r, recs, t, allow) ==
    IF IsDuplicate(r, recs, t) THEN Silent(recs, "duplicate")
    ELSE IF BelowThreshold(r) THEN Silent(recs, "threshold")
    ELSE IF NotAllowed(r, allow) THEN Silent(recs, "allow_list")
    ELSE IF NeutralSmallChange(r, recs) THEN Silent(recs, "neutral")
    ELSE IF Consolidation(r) THEN Silent(recs, "consolidation")
    ELSE IF ReversalRule(r, recs) THEN Notify(r, recs, t, "reversal")
    ELSE Notify(r, recs, t, "default")

ShouldNotify_DedupFirst(r, recs, t, allow) ==
    IF IsDuplicate(r, recs, t) THEN Silent(recs, "duplicate")
    ELSE IF ForcedRule(r) # "" THEN Notify(r, recs, t, ForcedRule(r))
    ELSE Filtered(r, recs, t, allow)

\* should_notify(result), evaluated at time t on the record map recs
ShouldNotify(r, recs, t, allow) ==
    IF ForcedRule(r) # "" THEN Notify(r, recs, t, ForcedRule(r))
    ELSE Filtered(r, recs, t, allow)

\* a scheduler that is constructed and never armed
SchedulerUnused ==
    /\ time_points = <<>>
    /\ requested = "simple"
    /\ holiday_detection = "simple"
    /\ chinese_calendar = FALSE
    /\ calendar = <<>>
    /\ task_callback = FALSE
    /\ running = FALSE
    /\ should_shutdown = FALSE
    /\ spc = "idle"
    /\ next_run = <<>>
    /\ runnable = <<>>
    /\ clock = <<0, 0>>
    /\ weekday0 = 0
    /\ task_outcome = ""
    /\ runs = <<>>
    /\ skips = <<>>

\* a pipeline of which run() is not called
PipelineUnused ==
    /\ stock_codes = <<>>
    /\ upc = <<>>
    /\ quote = <<>>
    /\ history = <<>>
    /\ verdict = <<>>
    /\ future = <<>>
    /\ mpc = "idle"
    /\ yielded = <<>>
    /\ triggered_results = <<>>
    /\ analyzed_count = 0
    /\ failed_count = 0

----------------------------------------------------------------------------
(* A filter used over a session: calls, the clock, clear_cache *)

FilterInit ==
    /\ records = EmptyMap
    /\ allowed = DefaultSignalTypes
    /\ now = 0
    /\ result = NoResult
    /\ prior = <<>>
    /\ ret = FALSE
    /\ rule = ""
    /\ fpc = "idle"

\* one whole call of should_notify
ShouldNotifyCall(r) ==
    /\ fpc = "idle"
    /\ LET out == ShouldNotify(r, records, now, allowed)
       IN  /\ records' = out.recs
           /\ ret' = out.notify
           /\ rule' = out.rule
    /\ result' = r
    /\ prior' = IF r.code \in DOMAIN records THEN records[r.code] ELSE <<>>
    /\ fpc' = "returned"
    /\ UNCHANGED <<allowed, now>>
    /\ UNCHANGED <<pvars, svars>>

\* the caller has used the returned value, or goes on after clear_cache
CallerContinues ==
    /\ fpc \in {"returned", "cleared"}
    /\ fpc' = "idle"
    /\ result' = NoResult
    /\ prior' = <<>>
    /\ ret' = FALSE
    /\ rule' = ""
    /\ UNCHANGED <<records, allowed, now>>
    /\ UNCHANGED <<pvars, svars>>

ClockTick ==
    /\ fpc = "idle"
    /\ now < MaxTicks * TickSeconds
    /\ now' = now + TickSeconds
    /\ UNCHANGED <<records, allowed, result, prior, ret, rule, fpc>>
    /\ UNCHANGED <<pvars, svars>>

Cleared_KeepsRecords(recs) == recs

\* self._last_notifications.clear()
Cleared(recs) == EmptyMap

\* clear_cache()
ClearCache ==
    /\ fpc = "idle"
    /\ records' = Cleared(records)
    /\ fpc' = "cleared"
    /\ UNCHANGED <<allowed, now, result, prior, ret, rule>>
    /\ UNCHANGED <<pvars, svars>>

\* a caller with some result of the session
SessionCall == fpc = "idle" /\ \E r \in SessionResults : ShouldNotifyCall(r)

FilterNext ==
    \/ SessionCall
    \/ CallerContinues
    \/ ClockTick
    \/ ClearCache

\* a fresh filter; the pipeline and the scheduler are not used
InitFilter == FilterInit /\ PipelineUnused /\ SchedulerUnused

SpecFilter == InitFilter /\ [][FilterNext]_vars

----------------------------------------------------------------------------
(* One call of should_notify on every result, record and allow-list *)

LastTime == MaxTicks * TickSeconds

\* the record maps a session can leave for the symbol: none, or any triple
PriorMaps ==
    {EmptyMap} \cup
    {[c \in {"600519"} |-> <<t, s, sc>>] : t \in Times, s \in BuySignal, sc \in Scores}

DecideInit ==
    /\ records \in PriorMaps
    /\ allowed \in AllowLists
    /\ now = LastTime
    /\ result = NoResult
    /\ prior = <<>>
    /\ ret = FALSE
    /\ rule = ""
    /\ fpc = "idle"

CallerDone ==
    /\ fpc = "returned"
    /\ fpc' = "done"
    /\ UNCHANGED <<records, allowed, now, result, prior, ret, rule>>
    /\ UNCHANGED <<pvars, svars>>

\* a caller with any result
AnyCall == fpc = "idle" /\ \E r \in AllResults : ShouldNotifyCall(r)

DecideNext ==
    \/ AnyCall
    \/ CallerDone

\* a filter with any record map; the pipeline and the scheduler are not used
InitDecide == DecideInit /\ PipelineUnused /\ SchedulerUnused

SpecDecide == InitDecide /\ [][DecideNext]_vars

----------------------------------------------------------------------------
(* Properties of should_notify *)

\* a call of should_notify has returned and its outcome is in result, ret, rule
Returned == fpc \in {"returned", "done"}

StrongSignal == result.buy_signal \in {"STRONG_BUY", "STRONG_SELL"}

VolumeAbove == result.volume_ratio # NoValue /\ result.volume_ratio > VolumeAlert

MacdCrossed == result.macd_status \in {"GOLDEN_CROSS_ZERO", "GOLDEN_CROSS", "DEATH_CROSS"}

RsiExtreme == result.rsi_12 # NoValue /\ (result.rsi_12 < 300 \/ result.rsi_12 > 700)

\* the call found a record of the same signal, in the window, with a score delta below 15
SameSignalInWindow ==
    /\ prior # <<>>
    /\ now - prior[1] < MinNotifyInterval
    /\ prior[2] = result.buy_signal
    /\ Abs(result.signal_score - prior[3]) < 15

\* C1: a result whose signal is STRONG_BUY or STRONG_SELL is always notified,
\* for every score, volume ratio, MACD, RSI, trend and record of the symbol.
C1_StrongAlwaysNotifies == (Returned /\ StrongSignal) => ret = TRUE

\* C1 witness: a STRONG_BUY of low score was notified over a consolidation
\* although the symbol had a record of the same signal and score inside the window.
C1_Witness ==
    /\ Returned /\ ret = TRUE
    /\ result.buy_signal = "STRONG_BUY"
    /\ result.signal_score = 45
    /\ result.trend_status = "CONSOLIDATION"
    /\ SameSignalInWindow
    /\ prior[3] = result.signal_score

\* C2 (as claimed): when the stored record of the symbol has a buy-family signal,
\* a call with a sell-family signal returns true, whatever the score and triggers.
C2_ReversalNotifies ==
    (/\ Returned
     /\ prior # <<>>
     /\ prior[2] \in {"STRONG_BUY", "BUY"}
     /\ result.buy_signal \in {"STRONG_SELL", "SELL"}) => ret = TRUE

\* C3 (as claimed): a call that finds the record of an accepted call of the same
\* signal inside the dedup window, with a score delta below 15, returns false.
C3_DedupSuppresses == (Returned /\ SameSignalInWindow) => ret = FALSE

\* C3 (amended): the same, for a second result that is not STRONG_BUY/STRONG_SELL
\* and has no volume, MACD-cross or RSI trigger.
C3_DedupSuppressesUnforced ==
    (/\ Returned
     /\ SameSignalInWindow
     /\ ~StrongSignal /\ ~VolumeAbove /\ ~MacdCrossed /\ ~RsiExtreme) => ret = FALSE

\* C3 witness: a BUY above the threshold on a rising trend was suppressed because
\* the record of an accepted BUY lies inside the window.
C3_Witness ==
    /\ Returned /\ ret = FALSE
    /\ SameSignalInWindow
    /\ result.buy_signal = "BUY"
    /\ result.signal_score >= NotifyThreshold
    /\ result.trend_status = "BULL"
    /\ records[result.code] = prior

\* C4: a result whose volume ratio is present and above the alert multiple is
\* always notified.
C4_VolumeAlwaysNotifies == (Returned /\ VolumeAbove) => ret = TRUE

\* C4 witness: a volume alert was notified with a score below the threshold, a signal
\* outside the allow-list, a consolidation and a same-signal record inside the window.
C4_Witness ==
    /\ Returned /\ ret = TRUE
    /\ VolumeAbove
    /\ result.signal_score < NotifyThreshold
    /\ result.buy_signal \notin allowed
    /\ result.trend_status = "CONSOLIDATION"
    /\ SameSignalInWindow

\* the map m with the record of code set to rec
WithRecord(m, code, rec) ==
    [c \in (DOMAIN m) \cup {code} |-> IF c = code THEN rec ELSE m[c]]

\* C5: a call that returns true leaves the symbol's record equal to (time of the
\* call, signal, score) and every other symbol's record as it was; a call that
\* returns false leaves the whole map as it was.
C5_RecordingAndFrame ==
    [][(fpc = "idle" /\ fpc' = "returned") =>
        /\ ret' = TRUE =>
             records' = WithRecord(records, result'.code,
                          <<now, result'.buy_signal, result'.signal_score>>)
        /\ ret' = FALSE => records' = records]_vars

\* C5 witness: an accepted call overwrote the symbol's earlier record while another
\* symbol has a record.
C5_Witness ==
    /\ fpc = "returned" /\ ret = TRUE
    /\ prior # <<>>
    /\ records[result.code] # prior
    /\ records[result.code] = <<now, result.buy_signal, result.signal_score>>
    /\ \E c \in DOMAIN records : c # result.code

C7_RsiBoundary ==
    (/\ Returned
     /\ ~StrongSignal /\ ~VolumeAbove /\ ~MacdCrossed
     /\ result.signal_score < NotifyThreshold)
    => /\ result.rsi_12 \in {300, 700} => ret = FALSE
       /\ (result.rsi_12 # NoValue /\ (result.rsi_12 < 300 \/ result.rsi_12 > 700))
            => ret = TRUE

\* C7 witness: an RSI of exactly 30 with no other trigger and a low score was suppressed.
C7_Witness ==
    /\ Returned /\ ret = FALSE
    /\ result.rsi_12 = 300
    /\ ~StrongSignal /\ ~VolumeAbove /\ ~MacdCrossed
    /\ result.signal_score < NotifyThreshold

\* a step that is one whole call of should_notify
CallStep == fpc = "idle" /\ fpc' = "returned"

\* what should_notify answers for a symbol that has no record: only the rules that
\* read no record decide
FreshDecision(r, allow) ==
    \/ r.buy_signal \in {"STRONG_BUY", "STRONG_SELL"}
    \/ (r.volume_ratio # NoValue /\ r.volume_ratio > VolumeAlert)
    \/ r.macd_status \in {"GOLDEN_CROSS_ZERO", "GOLDEN_CROSS", "DEATH_CROSS"}
    \/ (r.rsi_12 # NoValue /\ (r.rsi_12 < 300 \/ r.rsi_12 > 700))
    \/ (/\ r.signal_score >= NotifyThreshold
        /\ r.buy_signal \in allow
        /\ r.trend_status # "CONSOLIDATION")

\* C16: the map holds one triple per symbol at most; a record leaves the map only in
\* a step of clear_cache (not by a clock tick, not by a call of should_notify);
\* clear_cache leaves the map empty; and a call made on the empty map decides as
\* for a symbol that was never notified.
C16_RecordLifetime ==
    /\ [](/\ DOMAIN records \subseteq Codes
          /\ \A c \in DOMAIN records : Len(records[c]) = 3)
    /\ [][/\ ((\E c \in DOMAIN records : c \notin DOMAIN records') => ClearCache)
           /\ (ClearCache => records' = EmptyMap)
           /\ ((CallStep /\ records = EmptyMap) =>
                ret' = FreshDecision(result', allowed))]_vars

\* C16 witness: clear_cache has just returned, one dedup window after the start of
\* the session, and the map is empty.
C16_Witness ==
    /\ fpc = "cleared"
    /\ records = EmptyMap
    /\ now >= MinNotifyInterval

\* the map that holds only the record the call found for its own symbol
OwnRecord(code, rec) == IF rec = <<>> THEN EmptyMap ELSE [c \in {code} |-> rec]

\* C17: a call for symbol A returns, and leaves as A's record, what it would with
\* no record of any other symbol in the map; and it leaves the record of every
\* other symbol as it was.
C17_NonInterference ==
    [][CallStep =>
        LET a == result'.code
            alone == ShouldNotify(result', OwnRecord(a, prior'), now, allowed)
        IN  /\ ret' = alone.notify
            /\ (a \in DOMAIN records') = (a \in DOMAIN alone.recs)
            /\ (a \in DOMAIN records' => records'[a] = alone.recs[a])
            /\ \A b \in Codes \ {a} :
                 /\ (b \in DOMAIN records') = (b \in DOMAIN records)
                 /\ (b \in DOMAIN records => records'[b] = records[b])]_vars

\* C17 witness: a BUY of symbol A with no record of its own was accepted while the
\* other symbol holds a record of the same signal and score inside the window.
C17_Witness ==
    /\ fpc = "returned" /\ ret = TRUE
    /\ prior = <<>>
    /\ result.buy_signal = "BUY" /\ result.signal_score = 60
    /\ rule = "default"
    /\ \E b \in DOMAIN records :
         /\ b # result.code
         /\ records[b][2] = "BUY" /\ records[b][3] = 60
         /\ now - records[b][1] < MinNotifyInterval

\* the twelve steps of the decision procedure, first match wins, for result r, the
\* symbol's record rec (<<>> if none), the time t and the allow-list allow
ProcedureVerdict(r, rec, t, allow) ==
    IF r.buy_signal = "STRONG_BUY" THEN TRUE
    ELSE IF r.buy_signal = "STRONG_SELL" THEN TRUE
    ELSE IF r.volume_ratio # NoValue /\ r.volume_ratio > VolumeAlert THEN TRUE
    ELSE IF r.macd_status \in {"GOLDEN_CROSS_ZERO", "GOLDEN_CROSS", "DEATH_CROSS"} THEN TRUE
    ELSE IF r.rsi_12 # NoValue /\ (r.rsi_12 < 300 \/ r.rsi_12 > 700) THEN TRUE
    ELSE IF /\ rec # <<>>
            /\ t - rec[1] < MinNotifyInterval
            /\ r.buy_signal = rec[2]
            /\ Abs(r.signal_score - rec[3]) < 15 THEN FALSE
    ELSE IF r.signal_score < NotifyThreshold THEN FALSE
    ELSE IF r.buy_signal \notin allow THEN FALSE
    ELSE IF /\ r.buy_signal \in {"HOLD", "WAIT"}
            /\ rec # <<>>
            /\ Abs(r.signal_score - rec[3]) < 15 THEN FALSE
    ELSE IF r.trend_status = "CONSOLIDATION" THEN FALSE
    ELSE IF /\ rec # <<>>
            /\ \/ (rec[2] \in {"STRONG_BUY", "BUY"} /\ r.buy_signal \in {"STRONG_SELL", "SELL"})
               \/ (rec[2] \in {"STRONG_SELL", "SELL"} /\ r.buy_signal \in {"STRONG_BUY", "BUY"})
         THEN TRUE
    ELSE TRUE

WithoutReversal(r, recs, t, allow) ==
    IF ForcedRule(r) # "" THEN Notify(r, recs, t, ForcedRule(r))
    ELSE IF IsDuplicate(r, recs, t) THEN Silent(recs, "duplicate")
    ELSE IF BelowThreshold(r) THEN Silent(recs, "threshold")
    ELSE IF NotAllowed(r, allow) THEN Silent(recs, "allow_list")
    ELSE IF NeutralSmallChange(r, recs) THEN Silent(recs, "neutral")
    ELSE IF Consolidation(r) THEN Silent(recs, "consolidation")
    ELSE Notify(r, recs, t, "default")

\* C24: should_notify returns the value, and leaves the record map, that it would
\* with the reversal check removed, for every result, record and allow-list.
C24_ReversalNeverDecides ==
    Returned =>
        LET without == WithoutReversal(result, OwnRecord(result.code, prior), now, allowed)
        IN  /\ ret = without.notify
            /\ records = without.recs

\* C24 witness: a call returned at the reversal check: a BUY above the threshold on
\* a rising trend over the record of a STRONG_SELL.
C24_Witness ==
    /\ Returned /\ ret = TRUE /\ rule = "reversal"
    /\ prior # <<>>
    /\ prior[2] = "STRONG_SELL"
    /\ result.buy_signal = "BUY"
    /\ records[result.code] = <<now, "BUY", result.signal_score>>

----------------------------------------------------------------------------
(* IntradayAnalysisPipeline *)

Units == 1..Len(stock_codes)

RECURSIVE SeqsUpTo(_)
SeqsUpTo(n) ==
    IF n = 0 THEN {<<>>}
    ELSE LET shorter == SeqsUpTo(n - 1)
         IN  shorter \cup {Append(w, c) : w \in {x \in shorter : Len(x) = n - 1}, c \in Codes}

\* the codes are treated alike: the lists that start with the first code stand for all
Watchlists == {w \in SeqsUpTo(MaxWatch) : w = <<>> \/ w[1] = "600519"}

\* what fetcher_manager.get_realtime_quote(code) can do
NoQuote == [kind |-> "unread", volume_ratio |-> NoValue]

AllQuoteOutcomes ==
    {[kind |-> "raise", volume_ratio |-> NoValue],
     [kind |-> "none", volume_ratio |-> NoValue],
     [kind |-> "ok", volume_ratio |-> NoValue],
     [kind |-> "ok", volume_ratio |-> 45]}

\* in a batch: the retrieval raises, gives no quote, or a quote without a volume ratio
QuoteOutcomes ==
    {[kind |-> "raise", volume_ratio |-> NoValue],
     [kind |-> "none", volume_ratio |-> NoValue],
     [kind |-> "ok", volume_ratio |-> NoValue]}

\* what db.get_analysis_context(code) can do: raise, no context or no raw_data, rows
NoHistory == [kind |-> "unread", rows |-> 0]

AllHistoryOutcomes ==
    {[kind |-> "raise", rows |-> 0], [kind |-> "none", rows |-> 0]}
    \cup {[kind |-> "rows", rows |-> n] : n \in {0, MinHistory - 1, MinHistory, MinHistory + 1}}

\* in a batch: the retrieval raises, or gives just enough rows
HistoryOutcomes == {[kind |-> "raise", rows |-> 0], [kind |-> "rows", rows |-> MinHistory]}

\* what trend_analyzer.analyze(df, code) can do
NoVerdict ==
    [kind |-> "uncalled", buy_signal |-> "", signal_score |-> 0, macd_status |-> "None",
     rsi_12 |-> NoValue, trend_status |-> ""]

AnalyzerRaises ==
    [kind |-> "raise", buy_signal |-> "", signal_score |-> 0, macd_status |-> "None",
     rsi_12 |-> NoValue, trend_status |-> ""]

AllAnalyzerOutcomes ==
    {AnalyzerRaises} \cup
    [kind : {"ok"}, buy_signal : BuySignal, signal_score : {45, 60},
     macd_status : {"None", "DEATH_CROSS"}, rsi_12 : {NoValue},
     trend_status : {"BULL", "CONSOLIDATION"}]

\* in a batch: the analyzer raises, or gives a BUY at the threshold or a weak HOLD
AnalyzerOutcomes ==
    {AnalyzerRaises,
     [kind |-> "ok", buy_signal |-> "BUY", signal_score |-> 60,
      macd_status |-> "None", rsi_12 |-> NoValue, trend_status |-> "BULL"],
     [kind |-> "ok", buy_signal |-> "HOLD", signal_score |-> 45,
      macd_status |-> "None", rsi_12 |-> NoValue, trend_status |-> "CONSOLIDATION"]}

\* the outcome a future holds
Pending == [kind |-> "pending", val |-> NoResult]

Absent == [kind |-> "none", val |-> NoResult]

Raised == [kind |-> "exception", val |-> NoResult]

Completed(r) == [kind |-> "result", val |-> r]

\* step 4 of analyze_intraday
BuildResult(code, q, a) ==
    [code |-> code, buy_signal |-> a.buy_signal, signal_score |-> a.signal_score,
     volume_ratio |-> q.volume_ratio, macd_status |-> a.macd_status,
     rsi_12 |-> a.rsi_12, trend_status |-> a.trend_status]

\* except Exception in analyze_intraday: the unit yields None
Caught(outcome) == IF outcome.kind = "exception" THEN Absent ELSE outcome

\* step 1: if not realtime_quote: return None
QuoteStep(q) ==
    IF q.kind = "raise" THEN Caught(Raised)
    ELSE IF q.kind = "none" THEN Absent
    ELSE Pending

HistoryEnough_AtLeast21(h) == h.rows > MinHistory

\* len(df) < 20 -> None
HistoryEnough(h) == ~(h.rows < MinHistory)

\* step 2: context missing, raw_data empty, fewer than 20 rows
HistoryStep(h) ==
    IF h.kind = "raise" THEN Caught(Raised)
    ELSE IF h.kind = "none" THEN Absent
    ELSE IF h.rows = 0 THEN Absent
    ELSE IF ~HistoryEnough(h) THEN Absent
    ELSE Pending

\* steps 3 and 4
AnalyzeStep(code, q, a) ==
    IF a.kind = "raise" THEN Caught(Raised)
    ELSE Completed(BuildResult(code, q, a))

Active(i) == upc[i] \in {"sleeping", "history", "analyze"}

PipelineInit ==
    /\ stock_codes \in Watchlists
    /\ upc = [i \in Units |-> "new"]
    /\ quote = [i \in Units |-> NoQuote]
    /\ history = [i \in Units |-> NoHistory]
    /\ verdict = [i \in Units |-> NoVerdict]
    /\ future = [i \in Units |-> Pending]
    /\ mpc = "idle"
    /\ yielded = <<>>
    /\ triggered_results = <<>>
    /\ analyzed_count = 0
    /\ failed_count = 0

\* run(): the empty-list return, or the submission of every code to the pool
RunStart ==
    /\ mpc = "idle"
    /\ IF stock_codes = <<>>
       THEN mpc' = "returned" /\ upc' = upc
       ELSE mpc' = "collect" /\ upc' = [i \in Units |-> "queued"]
    /\ UNCHANGED <<stock_codes, quote, history, verdict, future, yielded,
                   triggered_results, analyzed_count, failed_count>>
    /\ UNCHANGED fvars
    /\ UNCHANGED svars

\* units in their jitter sleep or inside analyze_intraday
ActiveUnits == {j \in Units : Active(j)}

PoolHasFreeWorker_Unbounded == TRUE

PoolHasFreeWorker_NoReuse ==
    Cardinality({j \in Units : upc[j] \notin {"new", "queued"}}) < MaxWorkers

\* ThreadPoolExecutor(max_workers=self.max_workers): a queued unit starts when fewer
\* than max_workers units are being run
PoolHasFreeWorker == Cardinality(ActiveUnits) < MaxWorkers

\* a free worker takes the oldest queued unit and starts its jitter sleep
Dispatch(i) ==
    /\ upc[i] = "queued"
    /\ \A j \in Units : j < i => upc[j] # "queued"
    /\ PoolHasFreeWorker
    /\ upc' = [upc EXCEPT ![i] = "sleeping"]
    /\ UNCHANGED <<stock_codes, quote, history, verdict, future, mpc, yielded,
                   triggered_results, analyzed_count, failed_count>>
    /\ UNCHANGED fvars
    /\ UNCHANGED svars

\* the unit wakes and asks for the quote
GetQuote(i, q) ==
    /\ upc[i] = "sleeping"
    /\ quote' = [quote EXCEPT ![i] = q]
    /\ future' = [future EXCEPT ![i] = QuoteStep(q)]
    /\ upc' = [upc EXCEPT ![i] = IF QuoteStep(q) = Pending THEN "history" ELSE "done"]
    /\ UNCHANGED <<stock_codes, history, verdict, mpc, yielded,
                   triggered_results, analyzed_count, failed_count>>
    /\ UNCHANGED fvars
    /\ UNCHANGED svars

GetHistory(i, h) ==
    /\ upc[i] = "history"
    /\ history' = [history EXCEPT ![i] = h]
    /\ future' = [future EXCEPT ![i] = HistoryStep(h)]
    /\ upc' = [upc EXCEPT ![i] = IF HistoryStep(h) = Pending THEN "analyze" ELSE "done"]
    /\ UNCHANGED <<stock_codes, quote, verdict, mpc, yielded,
                   triggered_results, analyzed_count, failed_count>>
    /\ UNCHANGED fvars
    /\ UNCHANGED svars

Analyze(i, a) ==
    /\ upc[i] = "analyze"
    /\ verdict' = [verdict EXCEPT ![i] = a]
    /\ future' = [future EXCEPT ![i] = AnalyzeStep(stock_codes[i], quote[i], a)]
    /\ upc' = [upc EXCEPT ![i] = "done"]
    /\ UNCHANGED <<stock_codes, quote, history, mpc, yielded,
                   triggered_results, analyzed_count, failed_count>>
    /\ UNCHANGED fvars
    /\ UNCHANGED svars

InYielded(i) == \E k \in 1..Len(yielded) : yielded[k] = i

AfterAbsent_Break == "returned"

\* if result is None: failed_count += 1; continue
AfterAbsent == "collect"

Retain_InFront(list, r) == <<r>> \o list

\* triggered_results.append(result)
Retain(list, r) == Append(list, r)

\* one iteration of the as_completed loop of run(), on a finished unit
Collect(i) ==
    /\ mpc = "collect"
    /\ upc[i] = "done"
    /\ ~InYielded(i)
    /\ yielded' = Append(yielded, i)
    /\ IF future[i].kind = "exception"
       THEN /\ failed_count' = failed_count + 1
            /\ UNCHANGED <<analyzed_count, triggered_results, records, mpc>>
       ELSE IF future[i].kind = "none"
       THEN /\ analyzed_count' = analyzed_count + 1
            /\ failed_count' = failed_count + 1
            /\ mpc' = AfterAbsent
            /\ UNCHANGED <<triggered_results, records>>
       ELSE LET out == ShouldNotify(future[i].val, records, now, allowed)
            IN  /\ analyzed_count' = analyzed_count + 1
                /\ records' = out.recs
                /\ triggered_results' =
                     IF out.notify THEN Retain(triggered_results, future[i].val)
                     ELSE triggered_results
                /\ UNCHANGED <<failed_count, mpc>>
    /\ UNCHANGED <<stock_codes, upc, quote, history, verdict, future>>
    /\ UNCHANGED <<allowed, now, result, prior, ret, rule, fpc>>
    /\ UNCHANGED svars

\* every future was yielded: the pool is shut down and run() returns
RunReturn ==
    /\ mpc = "collect"
    /\ \A i \in Units : InYielded(i)
    /\ mpc' = "returned"
    /\ UNCHANGED <<stock_codes, upc, quote, history, verdict, future, yielded,
                   triggered_results, analyzed_count, failed_count>>
    /\ UNCHANGED fvars
    /\ UNCHANGED svars

WorkerStep ==
    \E i \in Units :
        \/ Dispatch(i)
        \/ \E q \in QuoteOutcomes : GetQuote(i, q)
        \/ \E h \in HistoryOutcomes : GetHistory(i, h)
        \/ \E a \in AnalyzerOutcomes : Analyze(i, a)

PipelineNext ==
    \/ RunStart
    \/ WorkerStep
    \/ \E i \in Units : Collect(i)
    \/ RunReturn

\* a pipeline over a fresh filter; the scheduler is not used
InitPipeline == FilterInit /\ PipelineInit /\ SchedulerUnused

SpecPipeline == InitPipeline /\ [][PipelineNext]_vars

\* units whose result was passed to should_notify, in the order of the calls
RECURSIVE OfferedOf(_)
OfferedOf(ys) ==
    IF ys = <<>> THEN <<>>
    ELSE LET rest == OfferedOf(SubSeq(ys, 1, Len(ys) - 1))
             i == ys[Len(ys)]
         IN  IF future[i].kind = "result" THEN Append(rest, i) ELSE rest

offered == OfferedOf(yielded)

----------------------------------------------------------------------------
(* analyze_intraday on one code, with every outcome of its three calls *)

AnalyzeInit ==
    /\ stock_codes \in {<<c>> : c \in Codes}
    /\ upc = [i \in Units |-> "new"]
    /\ quote = [i \in Units |-> NoQuote]
    /\ history = [i \in Units |-> NoHistory]
    /\ verdict = [i \in Units |-> NoVerdict]
    /\ future = [i \in Units |-> Pending]
    /\ mpc = "idle"
    /\ yielded = <<>>
    /\ triggered_results = <<>>
    /\ analyzed_count = 0
    /\ failed_count = 0

AnyWorkerStep ==
    \E i \in Units :
        \/ Dispatch(i)
        \/ \E q \in AllQuoteOutcomes : GetQuote(i, q)
        \/ \E h \in AllHistoryOutcomes : GetHistory(i, h)
        \/ \E a \in AllAnalyzerOutcomes : Analyze(i, a)

AnalyzeNext ==
    \/ RunStart
    \/ AnyWorkerStep
    \/ \E i \in Units : Collect(i)
    \/ RunReturn

\* a pipeline given one code, over a fresh filter
InitAnalyze == FilterInit /\ AnalyzeInit /\ SchedulerUnused

SpecAnalyze == InitAnalyze /\ [][AnalyzeNext]_vars

----------------------------------------------------------------------------
(* run() on a watchlist that names one code twice *)

\* the first code twice, alone or followed by the other code
RaceWatchlists == {<<"600519", "600519">>, <<"600519", "600519", "000001">>}

\* verdicts the filter accepts one after the other for one code, and one it drops
RaceAnalyzerOutcomes ==
    {[kind |-> "ok", buy_signal |-> "BUY", signal_score |-> 60,
      macd_status |-> "None", rsi_12 |-> NoValue, trend_status |-> "BULL"],
     [kind |-> "ok", buy_signal |-> "BUY", signal_score |-> 75,
      macd_status |-> "None", rsi_12 |-> NoValue, trend_status |-> "BULL"],
     [kind |-> "ok", buy_signal |-> "STRONG_SELL", signal_score |-> 45,
      macd_status |-> "None", rsi_12 |-> NoValue, trend_status |-> "BULL"],
     [kind |-> "ok", buy_signal |-> "HOLD", signal_score |-> 45,
      macd_status |-> "None", rsi_12 |-> NoValue, trend_status |-> "CONSOLIDATION"]}

RaceInit ==
    /\ stock_codes \in RaceWatchlists
    /\ upc = [i \in Units |-> "new"]
    /\ quote = [i \in Units |-> NoQuote]
    /\ history = [i \in Units |-> NoHistory]
    /\ verdict = [i \in Units |-> NoVerdict]
    /\ future = [i \in Units |-> Pending]
    /\ mpc = "idle"
    /\ yielded = <<>>
    /\ triggered_results = <<>>
    /\ analyzed_count = 0
    /\ failed_count = 0

RaceWorkerStep ==
    \E i \in Units :
        \/ Dispatch(i)
        \/ \E q \in QuoteOutcomes : GetQuote(i, q)
        \/ GetHistory(i, [kind |-> "rows", rows |-> MinHistory])
        \/ \E a \in RaceAnalyzerOutcomes : Analyze(i, a)

RaceNext ==
    \/ RunStart
    \/ RaceWorkerStep
    \/ \E i \in Units : Collect(i)
    \/ RunReturn

\* a pipeline given one code twice, over a fresh filter
InitRace == FilterInit /\ RaceInit /\ SchedulerUnused

SpecRace == InitRace /\ [][RaceNext]_vars

----------------------------------------------------------------------------
(* run() to its return: the pool's threads and the caller's thread are scheduled,
   and every external call returns or raises *)

\* one watchlist of each length, the two codes in turn
BatchWatchlists ==
    {w \in Watchlists :
        \A i \in 1..Len(w) : w[i] = IF i % 2 = 1 THEN "600519" ELSE "000001"}

BatchInit ==
    /\ stock_codes \in BatchWatchlists
    /\ upc = [i \in Units |-> "new"]
    /\ quote = [i \in Units |-> NoQuote]
    /\ history = [i \in Units |-> NoHistory]
    /\ verdict = [i \in Units |-> NoVerdict]
    /\ future = [i \in Units |-> Pending]
    /\ mpc = "idle"
    /\ yielded = <<>>
    /\ triggered_results = <<>>
    /\ analyzed_count = 0
    /\ failed_count = 0

\* the analyzer raises, or gives a BUY at the threshold
BatchAnalyzerOutcomes ==
    {AnalyzerRaises,
     [kind |-> "ok", buy_signal |-> "BUY", signal_score |-> 60,
      macd_status |-> "None", rsi_12 |-> NoValue, trend_status |-> "BULL"]}

BatchWorkerStep ==
    \E i \in Units :
        \/ Dispatch(i)
        \/ \E q \in QuoteOutcomes : GetQuote(i, q)
        \/ \E h \in HistoryOutcomes : GetHistory(i, h)
        \/ \E a \in BatchAnalyzerOutcomes : Analyze(i, a)

\* for future in as_completed(future_to_code): the next finished future is handled
CollectNext == \E i \in Units : Collect(i)

BatchNext ==
    \/ RunStart
    \/ BatchWorkerStep
    \/ CollectNext
    \/ RunReturn

\* the pool's worker threads run, each external call returns or raises, and the
\* thread of run() goes on through as_completed and the exit of the with block
BatchFairness ==
    /\ WF_vars(BatchWorkerStep)
    /\ WF_vars(CollectNext)
    /\ WF_vars(RunReturn)

\* a pipeline over a fresh filter; the scheduler is not used
InitBatch == FilterInit /\ BatchInit /\ SchedulerUnused

SpecBatch == InitBatch /\ [][BatchNext]_vars /\ BatchFairness

----------------------------------------------------------------------------
(* Properties of the pipeline *)

QuoteFailed(i) == quote[i].kind \in {"none", "raise"}

HistoryFailed(i) ==
    \/ history[i].kind \in {"none", "raise"}
    \/ history[i].kind = "rows" /\ history[i].rows < 20

AnalyzerFailed(i) == verdict[i].kind = "raise"

\* the three calls of analyze_intraday for unit i gave a quote, 20 rows or more, a verdict
UnitSucceeded(i) ==
    /\ quote[i].kind = "ok"
    /\ history[i].kind = "rows" /\ history[i].rows >= 20
    /\ verdict[i].kind = "ok"

WasOffered(i) == \E k \in 1..Len(offered) : offered[k] = i

\* C8: no exception of a quote, history or analyzer call leaves analyze_intraday, so
\* run() never raises; every returned result is the result of a unit whose analysis
\* succeeded; and when run() returns every unit has run to its end and every unit
\* that succeeded has been offered to the filter, whichever units failed.
C8_FailureIsolation ==
    /\ \A i \in Units : future[i].kind # "exception"
    /\ mpc \in {"idle", "collect", "returned"}
    /\ \A k \in 1..Len(triggered_results) :
         \E i \in Units : UnitSucceeded(i) /\ triggered_results[k] = future[i].val
    /\ mpc = "returned" =>
         \A i \in Units : upc[i] = "done" /\ (UnitSucceeded(i) => WasOffered(i))

\* C8 witness: run() returned a result for a list of three of which the first unit
\* yielded had no quote and another's analyzer raised.
C8_Witness ==
    /\ mpc = "returned"
    /\ Len(stock_codes) = 3
    /\ QuoteFailed(yielded[1])
    /\ \E j \in Units : AnalyzerFailed(j)
    /\ \E k \in Units : UnitSucceeded(k) /\ WasOffered(k)
    /\ triggered_results # <<>>

\* C9: given a quote, analyze_intraday yields an absent result without calling the
\* analyzer when the history is missing, empty or shorter than 20 rows, and calls
\* the analyzer when it has 20 rows or more.
C9_HistoryMinimum ==
    \A i \in Units :
        (upc[i] = "done" /\ quote[i].kind = "ok") =>
            /\ (history[i].kind = "none" \/ (history[i].kind = "rows" /\ history[i].rows < 20))
                 => (future[i].kind = "none" /\ verdict[i].kind = "uncalled")
            /\ (history[i].kind = "rows" /\ history[i].rows >= 20)
                 => verdict[i].kind # "uncalled"

\* C9 witness: a history of exactly 20 rows reached the analyzer and gave a result.
C9_Witness ==
    \E i \in Units :
        /\ upc[i] = "done"
        /\ history[i] = [kind |-> "rows", rows |-> 20]
        /\ verdict[i].kind = "ok"
        /\ future[i].kind = "result"

\* the results run() has retained for code c, in order
RECURSIVE RetainedFor(_, _)
RetainedFor(list, c) ==
    IF list = <<>> THEN <<>>
    ELSE IF Head(list).code = c THEN <<Head(list)>> \o RetainedFor(Tail(list), c)
    ELSE RetainedFor(Tail(list), c)

\* the triple _record_notification writes for result r
TripleOf(r) == <<now, r.buy_signal, r.signal_score>>

\* C18: when a code is in the watchlist twice, as_completed hands each unit to the
\* filter once, and when run() has returned the record of every code is the whole
\* triple of the last result accepted for that code (no record if none was).
C18_SameSymbolLastWriteWins ==
    /\ \A k \in 1..Len(yielded) : \A l \in 1..Len(yielded) :
         yielded[k] = yielded[l] => k = l
    /\ mpc = "returned" =>
         \A c \in Codes :
             LET mine == RetainedFor(triggered_results, c)
             IN  IF mine = <<>> THEN c \notin DOMAIN records
                 ELSE /\ c \in DOMAIN records
                      /\ records[c] = TripleOf(mine[Len(mine)])

\* C18 witness: run() returned after the filter accepted two different results of
\* the twice-listed code, the second unit's before the first unit's, and the record
\* is the triple of the first unit's result.
C18_Witness ==
    /\ mpc = "returned"
    /\ stock_codes[1] = stock_codes[2]
    /\ yielded[1] = 2
    /\ future[1].kind = "result" /\ future[2].kind = "result"
    /\ RetainedFor(triggered_results, stock_codes[1]) = <<future[2].val, future[1].val>>
    /\ TripleOf(future[1].val) # TripleOf(future[2].val)
    /\ records[stock_codes[1]] = TripleOf(future[1].val)

\* C19: at every moment of run() the units in their jitter sleep or inside
\* analyze_intraday are at most max_workers, whatever the length of the watchlist.
C19_BoundedConcurrency == Cardinality(ActiveUnits) <= MaxWorkers

\* C19 witness: max_workers units are being run while another unit of a longer
\* watchlist waits in the queue.
C19_Witness ==
    /\ Cardinality(ActiveUnits) = MaxWorkers
    /\ Len(stock_codes) > MaxWorkers
    /\ \E i \in Units : upc[i] = "queued"

\* the filter run over the results of the units us in that order, from a fresh filter
RECURSIVE Replay(_)
Replay(us) ==
    IF us = <<>> THEN [recs |-> EmptyMap, list |-> <<>>]
    ELSE LET before == Replay(SubSeq(us, 1, Len(us) - 1))
             r == future[us[Len(us)]].val
             out == ShouldNotify(r, before.recs, now, allowed)
         IN  [recs |-> out.recs,
              list |-> IF out.notify THEN Append(before.list, r) ELSE before.list]

\* C20: at every moment of run(), also while units are pending, the filter has been
\* consulted for every non-absent result yielded so far, and the retained list is
\* exactly the results for which should_notify returned true, in the order in which
\* the units completed and were offered to the filter.
C20_CollectionOrder ==
    /\ triggered_results = Replay(offered).list
    /\ records = Replay(offered).recs

\* C20 witness: the results of units 2 and 1 were accepted in that order while the
\* third unit was still being analysed.
C20_Witness ==
    /\ mpc = "collect"
    /\ Len(stock_codes) = 3
    /\ yielded = <<2, 1>>
    /\ triggered_results = <<future[2].val, future[1].val>>
    /\ upc[3] \in {"sleeping", "history", "analyze"}

\* the state run() returns in: nothing was done for an empty list; otherwise every
\* entry ran to its end and was collected once, and all were counted as attempted
RunComplete ==
    IF stock_codes = <<>>
    THEN /\ triggered_results = <<>>
         /\ yielded = <<>>
         /\ analyzed_count = 0 /\ failed_count = 0
         /\ records = EmptyMap
    ELSE /\ \A i \in Units :
              /\ upc[i] = "done"
              /\ future[i].kind # "pending"
              /\ Cardinality({k \in 1..Len(yielded) : yielded[k] = i}) = 1
         /\ analyzed_count = Len(stock_codes)

\* an entry goes forward only: submitted, taken by a worker once, then through the
\* calls of analyze_intraday to its end
UnitProgress ==
    \A i \in Units :
        upc'[i] # upc[i] =>
            <<upc[i], upc'[i]>> \in
                {<<"new", "queued">>, <<"queued", "sleeping">>, <<"sleeping", "history">>,
                 <<"sleeping", "done">>, <<"history", "analyze">>, <<"history", "done">>,
                 <<"analyze", "done">>}

\* C22: when every external call returns or raises, run() returns; by then every
\* watchlist entry was dispatched once and ran to completion or failure, the
\* attempted count equals the watchlist length and nothing is pending; an empty
\* watchlist returns the empty list with no dispatch and no call of the filter.
C22_BatchTermination ==
    /\ (mpc = "collect") ~> (mpc = "returned")
    /\ [](mpc = "returned" => RunComplete)
    /\ [][UnitProgress]_vars

\* C22 witness: run() returned for a watchlist longer than the pool, with an entry
\* that failed and an entry that was retained.
C22_Witness ==
    /\ mpc = "returned"
    /\ Len(stock_codes) > MaxWorkers
    /\ analyzed_count = Len(stock_codes)
    /\ failed_count >= 1
    /\ triggered_results # <<>>

----------------------------------------------------------------------------
(* IntradayScheduler, over the schedule library *)

Slots == 0..(SlotsPerDay - 1)

Days == 0..MaxDays

Jobs == 1..Len(time_points)

\* the lists of time points handed to the constructor: one or two, in any order
TimePointLists ==
    {<<a>> : a \in Slots} \cup {<<a, b>> : a \in Slots, b \in Slots}

\* date.weekday(), Monday = 0
Weekday(d) == (weekday0 + d) % 7

IsWeekday_SixDays(d) == Weekday(d) < 6

\* date.weekday() < 5
IsWeekday(d) == Weekday(d) < 5

IsTradingDay_NoFallback(d) ==
    IF holiday_detection = "simple" THEN IsWeekday(d)
    ELSE IF chinese_calendar THEN calendar[d] = "workday"
    ELSE IsWeekday(d)

\* is_trading_day(date) for a date of day d
IsTradingDay(d) ==
    IF holiday_detection = "simple" THEN IsWeekday(d)
    ELSE IF chinese_calendar
         THEN IF calendar[d] = "raise" THEN IsWeekday(d) ELSE calendar[d] = "workday"
    ELSE IsWeekday(d)

\* __init__(time_points, holiday_detection): advanced falls back to simple when
\* chinese_calendar cannot be imported
Constructed(mode, import_ok) ==
    IF mode = "advanced" /\ import_ok
    THEN [holiday_detection |-> "advanced", chinese_calendar |-> TRUE]
    ELSE [holiday_detection |-> "simple", chinese_calendar |-> FALSE]

\* what is_workday would answer per day: lookups that raise, or a holiday on day 1
Calendars ==
    {[d \in 0..(MaxDays + 1) |-> "raise"],
     [d \in 0..(MaxDays + 1) |-> IF d = 1 THEN "holiday" ELSE "workday"]}

\* schedule: the next run of a daily job at slot at, computed at time t
NextOccurrence(at, t) == IF at > t[2] THEN <<t[1], at>> ELSE <<t[1] + 1, at>>

\* a <= b on <<day, slot>>
NotAfter(a, b) == a[1] < b[1] \/ (a[1] = b[1] /\ a[2] <= b[2])

\* t plus k slots
Advance(t, k) ==
    LET total == t[2] + k
    IN  <<t[1] + (total \div SlotsPerDay), total % SlotsPerDay>>

\* schedule.run_pending: the jobs with next_run <= now, by next_run, then by registration
RECURSIVE SortedJobs(_)
SortedJobs(js) ==
    IF js = {} THEN <<>>
    ELSE LET first == CHOOSE j \in js :
                 \A k \in js :
                     \/ k = j
                     \/ ~NotAfter(next_run[k], next_run[j])
                     \/ (next_run[k] = next_run[j] /\ j < k)
         IN  <<first>> \o SortedJobs(js \ {first})

DueJobs == {j \in Jobs : NotAfter(next_run[j], clock)}

SchedulerInit ==
    /\ time_points \in TimePointLists
    /\ weekday0 \in 0..6
    /\ requested \in {"simple", "advanced"}
    /\ \E import_ok \in BOOLEAN :
          /\ holiday_detection = Constructed(requested, import_ok).holiday_detection
          /\ chinese_calendar = Constructed(requested, import_ok).chinese_calendar
    /\ calendar \in Calendars
    /\ task_callback = FALSE
    /\ running = FALSE
    /\ should_shutdown = FALSE
    /\ spc = "idle"
    /\ next_run = <<>>
    /\ runnable = <<>>
    /\ clock = <<0, 0>>
    /\ task_outcome = ""
    /\ runs = [j \in Jobs |-> [d \in 0..(MaxDays + 1) |-> 0]]
    /\ skips = [j \in Jobs |-> [d \in 0..(MaxDays + 1) |-> 0]]

\* set_intraday_tasks(task): one daily job per time point
SetIntradayTasks ==
    /\ spc = "idle"
    /\ task_callback' = TRUE
    /\ next_run' = [j \in Jobs |-> NextOccurrence(time_points[j], clock)]
    /\ spc' = "armed"
    /\ UNCHANGED <<time_points, requested, holiday_detection, chinese_calendar, calendar, running,
                   should_shutdown, runnable, clock, weekday0, task_outcome, runs>>
    /\ UNCHANGED skips
    /\ UNCHANGED <<fvars, pvars>>

\* run(): up to the first test of the loop condition
Run ==
    /\ spc = "armed"
    /\ running' = TRUE
    /\ spc' = "loop"
    /\ UNCHANGED <<time_points, requested, holiday_detection, chinese_calendar, calendar,
                   task_callback, should_shutdown, next_run, runnable, clock, weekday0,
                   task_outcome, runs>>
    /\ UNCHANGED skips
    /\ UNCHANGED <<fvars, pvars>>

LoopCondition_IgnoresFlags == TRUE

\* while self._running and not self.shutdown_handler.should_shutdown
LoopCondition == running /\ ~should_shutdown

\* the loop condition, then schedule.run_pending() lists the due jobs
LoopCheck ==
    /\ spc = "loop"
    /\ IF LoopCondition
       THEN spc' = "pending" /\ runnable' = SortedJobs(DueJobs)
       ELSE spc' = "stopped" /\ runnable' = runnable
    /\ UNCHANGED <<time_points, requested, holiday_detection, chinese_calendar, calendar,
                   task_callback, running, should_shutdown, next_run, clock, weekday0,
                   task_outcome, runs>>
    /\ UNCHANGED skips
    /\ UNCHANGED <<fvars, pvars>>

BetweenJobs_Threaded == spc \in {"pending", "task"}

\* run_pending calls the due jobs one by one on the thread of run(): the next job is
\* called when the one before it has returned
BetweenJobs == spc = "pending"

\* _safe_run_task of the first due job, up to the call of the task
SafeRunTask ==
    /\ BetweenJobs
    /\ runnable # <<>>
    /\ LET j == Head(runnable)
       IN  IF ~task_callback \/ ~IsTradingDay(clock[1])
           THEN /\ next_run' = [next_run EXCEPT ![j] = NextOccurrence(time_points[j], clock)]
                /\ runnable' = Tail(runnable)
                /\ skips' = IF task_callback
                            THEN [skips EXCEPT ![j][clock[1]] = @ + 1]
                            ELSE skips
                /\ UNCHANGED <<spc, runs>>
           ELSE /\ spc' = "task"
                /\ runs' = [runs EXCEPT ![j][clock[1]] = @ + 1]
                /\ UNCHANGED <<next_run, runnable, skips>>
    /\ UNCHANGED <<time_points, requested, holiday_detection, chinese_calendar, calendar,
                   task_callback, running, should_shutdown, clock, weekday0, task_outcome>>
    /\ UNCHANGED <<fvars, pvars>>

AfterTask_Propagates(outcome) == IF outcome = "raise" THEN "crashed" ELSE "pending"

\* try: self._task_callback() except Exception: logged; _safe_run_task returns either way
AfterTask(outcome) == "pending"

\* the task returns or raises after k slots; the job is rescheduled from the time it ended
TaskEnds(k, outcome) ==
    /\ spc = "task"
    /\ Advance(clock, k)[1] <= MaxDays
    /\ clock' = Advance(clock, k)
    /\ task_outcome' = outcome
    /\ LET j == Head(runnable)
       IN  next_run' = [next_run EXCEPT ![j] = NextOccurrence(time_points[j], clock')]
    /\ runnable' = Tail(runnable)
    /\ spc' = AfterTask(outcome)
    /\ UNCHANGED <<time_points, requested, holiday_detection, chinese_calendar, calendar,
                   task_callback, running, should_shutdown, weekday0, runs>>
    /\ UNCHANGED skips
    /\ UNCHANGED <<fvars, pvars>>

\* run_pending is over: time.sleep(30), then the loop condition again
SleepPoll ==
    /\ spc = "pending"
    /\ runnable = <<>>
    /\ Advance(clock, 1)[1] <= MaxDays
    /\ clock' = Advance(clock, 1)
    /\ spc' = "loop"
    /\ UNCHANGED <<time_points, requested, holiday_detection, chinese_calendar, calendar,
                   task_callback, running, should_shutdown, next_run, runnable, weekday0,
                   task_outcome, runs>>
    /\ UNCHANGED skips
    /\ UNCHANGED <<fvars, pvars>>

\* stop(), from the task or another thread
Stop ==
    /\ spc \in {"loop", "pending", "task"}
    /\ running
    /\ running' = FALSE
    /\ UNCHANGED <<time_points, requested, holiday_detection, chinese_calendar, calendar,
                   task_callback, should_shutdown, spc, next_run, runnable, clock,
                   weekday0, task_outcome, runs>>
    /\ UNCHANGED skips
    /\ UNCHANGED <<fvars, pvars>>

\* SIGINT/SIGTERM: GracefulShutdown sets should_shutdown
ShutdownSignal ==
    /\ spc \in {"loop", "pending", "task"}
    /\ ~should_shutdown
    /\ should_shutdown' = TRUE
    /\ UNCHANGED <<time_points, requested, holiday_detection, chinese_calendar, calendar,
                   task_callback, running, spc, next_run, runnable, clock, weekday0,
                   task_outcome, runs>>
    /\ UNCHANGED skips
    /\ UNCHANGED <<fvars, pvars>>

SchedulerNext ==
    \/ SetIntradayTasks
    \/ Run
    \/ LoopCheck
    \/ SafeRunTask
    \/ \E k \in 0..MaxTaskSlots, outcome \in {"ok", "raise"} : TaskEnds(k, outcome)
    \/ SleepPoll
    \/ Stop
    \/ ShutdownSignal

\* a constructed scheduler; its task is left abstract
InitScheduler == FilterInit /\ PipelineUnused /\ SchedulerInit

SpecScheduler == InitScheduler /\ [][SchedulerNext]_vars

----------------------------------------------------------------------------
(* The scheduler as a running thread: the loop keeps taking its steps *)

\* time.sleep(30) returns at the end of the days the model follows: the clock stays
HorizonPoll ==
    /\ spc = "pending"
    /\ runnable = <<>>
    /\ Advance(clock, 1)[1] > MaxDays
    /\ spc' = "loop"
    /\ UNCHANGED <<time_points, requested, holiday_detection, chinese_calendar, calendar,
                   task_callback, running, should_shutdown, next_run, runnable, clock,
                   weekday0, task_outcome, runs, skips>>
    /\ UNCHANGED <<fvars, pvars>>

TaskReturns == \E k \in 0..MaxTaskSlots, outcome \in {"ok", "raise"} : TaskEnds(k, outcome)

LiveNext ==
    \/ SetIntradayTasks
    \/ Run
    \/ LoopCheck
    \/ SafeRunTask
    \/ TaskReturns
    \/ SleepPoll
    \/ HorizonPoll
    \/ Stop
    \/ ShutdownSignal

\* the thread of run() is scheduled, sleep returns, and the task returns or raises
LoopFairness ==
    /\ WF_vars(LoopCheck)
    /\ WF_vars(SafeRunTask)
    /\ WF_vars(TaskReturns)
    /\ WF_vars(SleepPoll)
    /\ WF_vars(HorizonPoll)

\* a scheduler in simple mode, constructed on a Monday or on a Saturday
InitSchedulerLive ==
    /\ InitScheduler
    /\ requested = "simple"
    /\ weekday0 \in {0, 5}
    /\ \A d \in DOMAIN calendar : calendar[d] = "raise"

SpecSchedulerLive == InitSchedulerLive /\ [][LiveNext]_vars /\ LoopFairness

----------------------------------------------------------------------------
(* Properties of the scheduler *)

StillRunning == spc \in {"loop", "pending", "task"} /\ running /\ ~should_shutdown

\* C10 (as claimed): while the scheduler is Running, on every trading day that has
\* passed since the day it was started the task was invoked exactly once for each
\* registered trigger, and on no day more than once.
C10_OncePerTriggerPerDay ==
    StillRunning =>
        \A j \in Jobs : \A d \in Days :
            /\ runs[j][d] <= 1
            /\ (d >= 1 /\ d < clock[1] /\ IsTradingDay(d)) => runs[j][d] = 1

\* task invocations started on day d, over the jobs js
RECURSIVE InvocationsOn(_, _)
InvocationsOn(js, d) ==
    IF js = {} THEN 0
    ELSE LET j == CHOOSE x \in js : TRUE
         IN  runs[j][d] + InvocationsOn(js \ {j}, d)

\* a firing was skipped as "not a trading day" on a day before d
SkippedBefore(d) == \E j \in Jobs : \E e \in Days : e < d /\ skips[j][e] > 0

\* the task is never invoked on a day is_trading_day reports as non-trading
NoRunOnNonTradingDay ==
    \A j \in Jobs : \A d \in Days : ~IsTradingDay(d) => runs[j][d] = 0

\* C11 (as claimed): a trigger that fires on a non-trading day does not invoke the
\* task, and the skipped firing is never made up: on every later trading day that
\* has passed, the number of task invocations equals the number of registered triggers.
C11_SkippedNeverMadeUp ==
    StillRunning =>
        /\ NoRunOnNonTradingDay
        /\ \A d \in Days :
             (d < clock[1] /\ IsTradingDay(d) /\ SkippedBefore(d))
                 => InvocationsOn(Jobs, d) = Len(time_points)

\* a step of _safe_run_task for the first due job (not a stop() or a signal)
FiringStep == spc = "pending" /\ runnable # <<>> /\ (spc' # spc \/ runnable' # runnable)

\* C12: when the task raises, _safe_run_task returns to run_pending with the loop
\* flags as they were (the loop stays Running), and after a raising invocation every
\* firing on a trading day still starts an invocation of the task.
C12_TaskExceptionContained ==
    [][/\ (spc = "task" /\ spc' # "task" /\ task_outcome' = "raise") =>
            (spc' = "pending" /\ running' = running /\ should_shutdown' = should_shutdown)
       /\ (task_outcome = "raise" /\ FiringStep /\ IsTradingDay(clock[1])) =>
            /\ spc' = "task"
            /\ runs' = [runs EXCEPT ![Head(runnable)][clock[1]] = @ + 1]]_vars

\* C12 witness: the last invocation raised, the scheduler is still Running and a
\* later trigger has started the task again.
C12_Witness ==
    /\ task_outcome = "raise"
    /\ spc = "task"
    /\ StillRunning
    /\ InvocationsOn(Jobs, clock[1]) >= 1
    /\ \E d \in Days : d < clock[1] /\ InvocationsOn(Jobs, d) >= 1

ShutdownRequested == spc \in {"loop", "pending", "task"} /\ (~running \/ should_shutdown)

\* C13: once stop() was called or the shutdown flag is set, the loop exits at its
\* next loop-condition check; the scheduler eventually reaches Stopped; and after
\* that check no task invocation begins.
C13_ShutdownStopsLoop ==
    /\ [][(spc = "loop" /\ (~running \/ should_shutdown) /\ spc' # spc) => spc' = "stopped"]_vars
    /\ [][spc = "stopped" => (spc' = "stopped" /\ runs' = runs)]_vars
    /\ (ShutdownRequested ~> spc = "stopped")

\* C13 witness: the loop has stopped on a trading day after a task invocation that
\* finished, and a trigger that is due was not started.
C13_Witness ==
    /\ spc = "stopped"
    /\ task_outcome # ""
    /\ IsTradingDay(clock[1])
    /\ \E j \in Jobs : NotAfter(next_run[j], clock)

\* the days the calendar is asked about
AllDays == 0..(MaxDays + 1)

MondayToFriday(d) == Weekday(d) \in {0, 1, 2, 3, 4}

\* C14: in simple mode is_trading_day is true exactly on Monday to Friday, for every
\* date and whatever the holiday calendar would answer for it.
C14_SimpleModeWeekdays ==
    holiday_detection = "simple" =>
        \A d \in AllDays : IsTradingDay(d) <=> MondayToFriday(d)

\* C14 witness: in simple mode the task was invoked on a weekday the calendar calls
\* a holiday, after a firing was skipped on a weekend day the calendar calls a workday.
C14_Witness ==
    /\ holiday_detection = "simple"
    /\ \E d \in Days :
         /\ calendar[d] = "holiday" /\ MondayToFriday(d)
         /\ InvocationsOn(Jobs, d) >= 1
    /\ \E e \in Days :
         /\ calendar[e] = "workday" /\ ~MondayToFriday(e)
         /\ \E j \in Jobs : skips[j][e] >= 1
         /\ InvocationsOn(Jobs, e) = 0

\* C15: with advanced mode requested is_trading_day always answers: the weekday-only
\* answer when the calendar could not be loaded or its lookup raises, and the
\* calendar's answer when the lookup succeeds.
C15_AdvancedModeFallback ==
    requested = "advanced" =>
        \A d \in AllDays :
            /\ IsTradingDay(d) \in BOOLEAN
            /\ IsTradingDay(d) <=>
                 (IF chinese_calendar /\ calendar[d] # "raise"
                  THEN calendar[d] = "workday"
                  ELSE MondayToFriday(d))

\* C15 witness: in advanced mode with the calendar loaded, the lookup raised on a
\* weekday and the task was invoked on it.
C15_Witness ==
    /\ requested = "advanced" /\ chinese_calendar
    /\ \E d \in Days :
         /\ calendar[d] = "raise" /\ MondayToFriday(d)
         /\ InvocationsOn(Jobs, d) >= 1

\* an invocation of the task begins in this step
TaskBegins == runs' # runs

\* C23: no two invocations of the task are in flight at once: an invocation begins
\* only while none is running, so triggers due in one poll run one after another and
\* a trigger that is due while a task runs fires after that task has returned.
C23_OneTaskAtATime ==
    [][/\ (TaskBegins => (spc = "pending" /\ spc' = "task"))
       /\ (spc = "task" => (~TaskBegins /\ spc' \in {"task", "pending"}))]_vars

\* C23 witness: a task is running while a second trigger, due in the same poll and
\* not yet fired on that day, waits behind it.
C23_Witness ==
    /\ spc = "task"
    /\ Len(runnable) >= 2
    /\ runs[runnable[1]][clock[1]] = 1
    /\ runs[runnable[2]][clock[1]] = 0

====
